---- MODULE Spec2Model ----
(***************************************************************************)
(* Model of integration_tests/ibc_utils.py: the duplicate detectors, the   *)
(* polling waits and their wrappers, the denomination derivation, and the  *)
(* transfer scenarios with their reconciliation checks.                    *)
(*                                                                         *)
(* Python values are modelled as tagged tuples: <<"None">>, <<"str", s>>,  *)
(* <<"raise", E>>.  Strings that are only compared or concatenated are TLA *)
(* strings; strings whose characters are inspected (the denomination       *)
(* paths) are sequences of one-character strings.                          *)
(***************************************************************************)
EXTENDS Integers, Sequences, FiniteSets, TLC

VARIABLES
    \* ---- duplicate detectors
    \* (a behaviour is one call)
    dupOp,        \* which detector ran last: "none" | "find_duplicate" | "assert_duplicate" | "scan"
    attributes,   \* argument of the find_duplicate call
    fdResult,     \* its outcome
    events,       \* events inspected by the assert_duplicate call / the per-event scan
    adResult,     \* its outcome
    \* ---- polling waits
    pc,           \* "idle" | "polling" | "done"
    kind,         \* which wrapper is running
    withTimeout,  \* whether the wrapper was called with timeout is not None
    timeout,      \* timeout handed to wait_for_fn (seconds)
    elapsed,      \* seconds slept so far by wait_for_fn
    polls,        \* number of predicate invocations so far
    lastPoll,     \* value returned by the last predicate invocation
    waitResult,   \* how wait_for_fn ended: "none" | "returned" | "TimeoutError"
    callResult,   \* how the wrapper ended: "none" | "ok" | an exception name
    channels,     \* ledger: channels of the connection, in query order
    channel_id,   \* wait_for_check_channel_ready argument
    target,       \* wait_for_check_channel_ready argument
    txs,          \* ledger: number of transactions of the address
    num_txs,      \* wait_for_check_tx argument (the baseline)
    status,       \* contract: status of (channel_id, seq)
    balance,      \* ledger: destination balance
    old_balance,  \* balance read before the wait
    everTrue,     \* history: the condition held in some state in which the wait was polling
    \* ---- denomination derivation
    denomCalls,   \* the last two ibc_denom calls, newest first
    scen,         \* scenario whose inline derivation ran: "none" | "multi" | "incentivized"
    scenPc,       \* "start" | "derived" | "trace_ok" | "AssertionError"
    scenChannel,  \* the scenario's channel
    scenDenom,    \* the scenario's base denom
    scenIbcDenom, \* the denomination the scenario computed inline
    scenTrace,    \* the denom trace the ledger answered
    \* ---- transfer scenarios
    \* (a behaviour is one run of one scenario)
    scenario,     \* the function that runs: "none" | "ibc_multi_transfer" | "ibc_incentivized_transfer" | "ica_ctrl_send_tx"
    line,         \* its position: "start" | "l<source line>" | "returned"
    raised,       \* the exception that ended it, None otherwise
    rsp,          \* the response to the last submitted transaction
    slept,        \* seconds slept so far by the wait_for_fn that is running
    locals,       \* its local variables, and the ledger answers it has seen
    \* ---- get_next_channel
    \* (a behaviour is one call)
    connChannels, \* the channel ids of the connection, as the query answers them
    nextChannel,  \* the id get_next_channel returned, None before the call
    \* ---- the host chain and the calls of ica_ctrl_send_tx
    hostTxs,      \* the transactions of the interchain account the host chain has committed
    txsAtSubmit,  \* their number when the controller transaction was submitted
    calls         \* the calls ica_ctrl_send_tx has made on its collaborators, in order

dupVars == <<dupOp, attributes, fdResult, events, adResult>>
waitVars == <<pc, kind, withTimeout, timeout, elapsed, polls, lastPoll, waitResult, callResult,
              channels, channel_id, target, txs, num_txs, status, balance,
              old_balance, everTrue>>
denomVars == <<denomCalls, scen, scenPc, scenChannel, scenDenom, scenIbcDenom, scenTrace>>
xferVars == <<scenario, line, raised, rsp, slept, locals>>
chanVars == <<connChannels, nextChannel>>
icaVars == <<hostTxs, txsAtSubmit, calls>>
vars == <<dupVars, waitVars, denomVars, xferVars, chanVars, icaVars>>

None == <<"None">>
Str(s) == <<"str", s>>
Raise(e) == <<"raise", e>>

(***************************************************************************)
(* Bounds of the model.                                                    *)
(***************************************************************************)
MaxAttrs == 4
MaxEvents == 3
MaxTimeout == 3
MaxTxs == 2
MaxChannels == 2
MaxBalance == 2
MaxStrLen == 2
\* stands for wait_for_fn's default timeout, which the wrappers do not set
DefaultTimeout == 4

\* all sequences over S of length at most n
SeqsUpTo(S, n) == UNION {[1..k -> S] : k \in 0..n}

(***************************************************************************)
(* find_duplicate                                                          *)
(***************************************************************************)
AttrKeys == {"receiver", "amount", "sender"}
AttrValues == {"a", "a:a", "b"}
Attributes == [key : AttrKeys, value : AttrValues]

\* f"{value0}:{amount}"
value_pair(value0, amount) == value0 \o ":" \o amount

\* the loop of find_duplicate from attribute i on; value0 is Python's
\* local, unbound (<<>>) until the first attribute has been read
RECURSIVE find_duplicate_loop(_, _, _, _, _)
find_duplicate_loop(attrs, i, key, value0, res) ==
    IF i > Len(attrs) THEN None
    ELSE LET attribute == attrs[i] IN
         IF attribute.key = key
         THEN find_duplicate_loop(attrs, i + 1, key, attribute.value, res)
         ELSE IF attribute.key = "amount"
         THEN LET vp == value_pair(value0, attribute.value) IN
              IF vp \in res THEN Str(vp)
              ELSE find_duplicate_loop(attrs, i + 1, key, value0, res \cup {vp})
         ELSE find_duplicate_loop(attrs, i + 1, key, value0, res)

\* attributes[0]["key"] raises IndexError on an empty list
find_duplicate(attrs) ==
    IF Len(attrs) = 0 THEN Raise("IndexError")
    ELSE find_duplicate_loop(attrs, 1, attrs[1].key, <<>>, {})

CallFindDuplicate ==
    /\ dupOp = "none"
    /\ \E attrs \in SeqsUpTo(Attributes, MaxAttrs) :
        /\ dupOp' = "find_duplicate"
        /\ attributes' = attrs
        /\ fdResult' = find_duplicate(attrs)
        /\ events' = <<>>
        /\ adResult' = None
        /\ UNCHANGED <<waitVars, denomVars, xferVars, chanVars, icaVars>>

(***************************************************************************)
(* assert_duplicate and the per-event scan of ibc_transfer_with_hermes     *)
(***************************************************************************)
EventTypes == {"message", "transfer", "recv_packet"}
EventAttrLists ==
    { <<>>,
      <<[key |-> "receiver", value |-> "a"]>>,
      <<[key |-> "receiver", value |-> "a"], [key |-> "amount", value |-> "b"],
        [key |-> "receiver", value |-> "a"], [key |-> "amount", value |-> "b"]>> }
Events == [type : EventTypes, attributes : EventAttrLists]

\* json.dumps of a string; the strings of the model hold no character that
\* JSON escapes
json_str(s) == "\"" \o s \o "\""

json_attribute(a) ==
    "{\"key\": " \o json_str(a.key) \o ", \"value\": " \o json_str(a.value) \o "}"

RECURSIVE json_list(_, _)
json_list(attrs, i) ==
    IF i > Len(attrs) THEN ""
    ELSE (IF i > 1 THEN ", " ELSE "") \o json_attribute(attrs[i]) \o json_list(attrs, i + 1)

\* json.dumps(event)
json_dumps(event) ==
    "{\"type\": " \o json_str(event.type)
        \o ", \"attributes\": [" \o json_list(event.attributes, 1) \o "]}"

\* a mutant: "message" events are compared like the others
RECURSIVE assert_duplicate_loop_nomsgskip(_, _, _)
assert_duplicate_loop_nomsgskip(evts, i, values) ==
    IF i > Len(evts) THEN None
    ELSE LET str == json_dumps(evts[i]) IN
         IF str \in values THEN Raise("AssertionError")
         ELSE assert_duplicate_loop_nomsgskip(evts, i + 1, values \cup {str})

\* the loop of assert_duplicate from event i on
RECURSIVE assert_duplicate_loop(_, _, _)
assert_duplicate_loop(evts, i, values) ==
    IF i > Len(evts) THEN None
    ELSE IF evts[i].type = "message"
    THEN assert_duplicate_loop(evts, i + 1, values)
    ELSE LET str == json_dumps(evts[i]) IN
         IF str \in values THEN Raise("AssertionError")
         ELSE assert_duplicate_loop(evts, i + 1, values \cup {str})

\* evts are the events of the block's first transaction result
assert_duplicate(evts) == assert_duplicate_loop(evts, 1, {})

CallAssertDuplicate ==
    /\ dupOp = "none"
    /\ \E evts \in SeqsUpTo(Events, MaxEvents) :
        /\ dupOp' = "assert_duplicate"
        /\ events' = evts
        /\ adResult' = assert_duplicate(evts)
        /\ attributes' = <<>>
        /\ fdResult' = None
        /\ UNCHANGED <<waitVars, denomVars, xferVars, chanVars, icaVars>>

\* Python truthiness of a find_duplicate result
Truthy(r) == r[1] = "str" /\ r[2] # ""

\* for event in events: dup = find_duplicate(event["attributes"]); assert not dup
RECURSIVE scan_events(_, _)
scan_events(evts, i) ==
    IF i > Len(evts) THEN None
    ELSE LET dup == find_duplicate(evts[i].attributes) IN
         IF dup[1] = "raise" THEN dup
         ELSE IF Truthy(dup) THEN Raise("AssertionError")
         ELSE scan_events(evts, i + 1)

ScanRecvPacketEvents ==
    /\ dupOp = "none"
    /\ \E evts \in SeqsUpTo(Events, MaxEvents) :
        /\ dupOp' = "scan"
        /\ events' = evts
        /\ adResult' = scan_events(evts, 1)
        /\ attributes' = <<>>
        /\ fdResult' = None
        /\ UNCHANGED <<waitVars, denomVars, xferVars, chanVars, icaVars>>

DupIdle ==
    /\ dupOp = "none"
    /\ attributes = <<>>
    /\ fdResult = None
    /\ events = <<>>
    /\ adResult = None

FindDuplicateNext == CallFindDuplicate

EventsNext == CallAssertDuplicate \/ ScanRecvPacketEvents

(***************************************************************************)
(* The polling waits.  Predicate results are <<"bool", b>> or <<"int", n>>.*)
(***************************************************************************)
PyBool(b) == <<"bool", b>>
PyInt(n) == <<"int", n>>
IsTruthy(v) == IF v[1] = "bool" THEN v[2] ELSE v[2] # 0

\* class Status(IntEnum): PENDING, SUCCESS, FAIL = range(3)
PENDING == 0
SUCCESS == 1
FAIL == 2

ChannelReadyTimeout == 30
PollInterval == 1

STATE_INIT == "STATE_INIT"
STATE_TRYOPEN == "STATE_TRYOPEN"
STATE_OPEN == "STATE_OPEN"
ChannelStates == {STATE_INIT, STATE_TRYOPEN, STATE_OPEN}
ChannelId(n) == "channel-" \o ToString(n)

\* the channel lists the ledger can answer: ids are handed out in order
ChannelLists ==
    UNION { [1..n -> ChannelStates] : n \in 0..MaxChannels }
ChannelList(states) ==
    [i \in 1..Len(states) |-> [channel_id |-> ChannelId(i - 1), state |-> states[i]]]

\* next(channel["state"] for channel in channels if channel["channel_id"] == id):
\* the state of the first match from entry i on, STOP when the generator is exhausted
RECURSIVE next_state(_, _, _)
next_state(chs, id, i) ==
    IF i > Len(chs) THEN "StopIteration"
    ELSE IF chs[i].channel_id = id THEN chs[i].state
    ELSE next_state(chs, id, i + 1)

\* a mutant: any channel in the target state counts, whatever its id
check_channel_ready_anyid(chs, id, tgt) ==
    PyBool(\E i \in 1..Len(chs) : chs[i].state = tgt)

\* a mutant: a channel that is not visible yet counts as ready
check_channel_ready_absent_true(chs, id, tgt) ==
    LET state == next_state(chs, id, 1) IN
    IF state = "StopIteration" THEN PyBool(TRUE) ELSE PyBool(state = tgt)

\* wait_for_check_channel_ready.check_channel_ready
check_channel_ready(chs, id, tgt) ==
    LET state == next_state(chs, id, 1) IN
    IF state = "StopIteration" THEN PyBool(FALSE) ELSE PyBool(state = tgt)

\* a mutant: the balances are not compared
check_balance_change_always(new_dst_balance, old_dst_balance) == PyBool(TRUE)

\* ibc_transfer_with_hermes.check_balance_change
check_balance_change(new_dst_balance, old_dst_balance) ==
    PyBool(new_dst_balance # old_dst_balance)

\* a mutant: a count equal to the baseline is enough
check_tx_nonstrict(current, baseline) == PyBool(current >= baseline)

\* wait_for_check_tx.check_tx
check_tx(current, baseline) == PyBool(current > baseline)

\* a mutant: only SUCCESS counts as settled
check_status_success_only(st) == PyInt(IF st = SUCCESS THEN SUCCESS ELSE PENDING)

\* wait_for_status_change.check_status
check_status(st) == PyInt(st)

\* the predicate handed to wait_for_fn by the running wrapper
fn ==
    CASE kind = "channel_ready" -> check_channel_ready(channels, channel_id, target)
      [] kind = "balance_change" -> check_balance_change(balance, old_balance)
      [] kind = "check_tx" -> check_tx(txs, num_txs)
      [] kind = "status_change" -> check_status(status)

\* how wait_for_check_channel_ready and the balance wait end, given how
\* wait_for_fn ended: the TimeoutError propagates
plain_wait_outcome(wr) ==
    CASE wr = "none" -> "none"
      [] wr = "returned" -> "ok"
      [] wr = "TimeoutError" -> "TimeoutError"

\* a mutant: "raised" starts out False and is not asserted
wait_for_check_tx_outcome_noassert(withT, wr) ==
    CASE wr = "none" -> "none"
      [] wr = "returned" -> "ok"
      [] wr = "TimeoutError" -> IF withT THEN "ok" ELSE "TimeoutError"

\* wait_for_check_tx: with a timeout, "raised" is bound only in the except
\* branch, so "assert raised" is an UnboundLocalError when the wait returned
wait_for_check_tx_outcome(withT, wr) ==
    IF ~withT THEN plain_wait_outcome(wr)
    ELSE CASE wr = "none" -> "none"
           [] wr = "TimeoutError" -> "ok"
           [] wr = "returned" -> "UnboundLocalError"

\* wait_for_status_change: the same shape as wait_for_check_tx
wait_for_status_change_outcome(withT, wr) ==
    IF ~withT THEN plain_wait_outcome(wr)
    ELSE CASE wr = "none" -> "none"
           [] wr = "TimeoutError" -> "ok"
           [] wr = "returned" -> "UnboundLocalError"

wrapper_outcome(k, withT, wr) ==
    CASE k = "check_tx" -> wait_for_check_tx_outcome(withT, wr)
      [] k = "status_change" -> wait_for_status_change_outcome(withT, wr)
      [] OTHER -> plain_wait_outcome(wr)

\* the condition the running wait is about, read off the ledger
Cond ==
    CASE kind = "channel_ready" ->
            \E i \in 1..Len(channels) :
                channels[i].channel_id = channel_id /\ channels[i].state = target
      [] kind = "balance_change" -> balance # old_balance
      [] kind = "check_tx" -> txs > num_txs
      [] kind = "status_change" -> status # PENDING
      [] OTHER -> FALSE

\* wait_for_fn(name, fn, timeout=t) is entered: with nothing to wait the loop
\* body never runs and the wait is over at once
StartWait(k, withT, t) ==
    /\ pc = "idle"
    /\ kind' = k
    /\ withTimeout' = withT
    /\ timeout' = t
    /\ elapsed' = 0
    /\ polls' = 0
    /\ lastPoll' = PyBool(FALSE)
    /\ waitResult' = IF t > 0 THEN "none" ELSE "TimeoutError"
    /\ pc' = IF t > 0 THEN "polling" ELSE "done"
    /\ callResult' = wrapper_outcome(k, withT, waitResult')
    /\ everTrue' = (t > 0 /\ Cond')
    /\ UNCHANGED <<dupVars, denomVars, xferVars, chanVars, icaVars>>

\* wait_for_check_channel_ready(cli, connid, channel_id, target)
CallWaitForCheckChannelReady ==
    /\ pc = "idle"
    /\ \E states \in ChannelLists, n \in 0..MaxChannels, tgt \in ChannelStates :
        /\ channels' = ChannelList(states)
        /\ channel_id' = ChannelId(n)
        /\ target' = tgt
        /\ UNCHANGED <<txs, num_txs, status, balance, old_balance>>
        /\ StartWait("channel_ready", FALSE, ChannelReadyTimeout)

\* old_dst_balance = get_balance(...); wait_for_fn("balance change", check_balance_change)
CallWaitBalanceChange ==
    /\ pc = "idle"
    /\ \E b \in 0..MaxBalance :
        /\ balance' = b
        /\ old_balance' = b
        /\ UNCHANGED <<channels, channel_id, target, txs, num_txs, status>>
        /\ StartWait("balance_change", FALSE, DefaultTimeout)

\* wait_for_check_tx(cli, adr, num_txs, timeout)
CallWaitForCheckTx ==
    /\ pc = "idle"
    /\ \E cur \in 0..MaxTxs, base \in 0..MaxTxs, withT \in BOOLEAN, t \in 0..MaxTimeout :
        /\ withT \/ t = 0
        /\ txs' = cur
        /\ num_txs' = base
        /\ UNCHANGED <<channels, channel_id, target, status, balance, old_balance>>
        /\ StartWait("check_tx", withT, IF withT THEN t ELSE DefaultTimeout)

\* wait_for_status_change(tcontract, channel_id, seq, timeout)
CallWaitForStatusChange ==
    /\ pc = "idle"
    /\ \E st \in {PENDING, SUCCESS, FAIL}, withT \in BOOLEAN, t \in 0..MaxTimeout :
        /\ withT \/ t = 0
        /\ status' = st
        /\ UNCHANGED <<channels, channel_id, target, txs, num_txs, balance, old_balance>>
        /\ StartWait("status_change", withT, IF withT THEN t ELSE DefaultTimeout)

\* one iteration of wait_for_fn: invoke the predicate, return on a truthy
\* result, otherwise sleep one interval and raise once the timeout is used up
WaitIteration ==
    /\ pc = "polling"
    /\ LET result == fn IN
        /\ polls' = polls + 1
        /\ lastPoll' = result
        /\ elapsed' = IF IsTruthy(result) THEN elapsed ELSE elapsed + PollInterval
        /\ waitResult' = IF IsTruthy(result) THEN "returned"
                         ELSE IF elapsed + PollInterval >= timeout THEN "TimeoutError"
                         ELSE "none"
    /\ pc' = IF waitResult' = "none" THEN "polling" ELSE "done"
    /\ callResult' = wrapper_outcome(kind, withTimeout, waitResult')
    /\ UNCHANGED <<kind, withTimeout, timeout, channels, channel_id, target, txs,
                   num_txs, status, balance, old_balance, everTrue>>
    /\ UNCHANGED <<dupVars, denomVars, xferVars, chanVars, icaVars>>

\* what a ledger step leaves alone
LedgerFrame ==
    /\ UNCHANGED <<pc, kind, withTimeout, timeout, elapsed, polls, lastPoll,
                   waitResult, callResult, channel_id, target, num_txs, old_balance>>
    /\ everTrue' = (everTrue \/ (pc = "polling" /\ Cond'))
    /\ UNCHANGED <<dupVars, denomVars, xferVars, chanVars, icaVars>>

\* the handshake: a channel appears in STATE_INIT
LedgerChannelOpenInit ==
    /\ kind = "channel_ready"
    /\ Len(channels) < MaxChannels
    /\ channels' = Append(channels,
                          [channel_id |-> ChannelId(Len(channels)), state |-> STATE_INIT])
    /\ UNCHANGED <<txs, status, balance>>
    /\ LedgerFrame

\* the handshake advances: INIT -> TRYOPEN -> OPEN
LedgerChannelAdvance ==
    /\ kind = "channel_ready"
    /\ \E i \in 1..Len(channels) :
        /\ channels[i].state # STATE_OPEN
        /\ channels' = [channels EXCEPT ![i].state =
                            IF @ = STATE_INIT THEN STATE_TRYOPEN ELSE STATE_OPEN]
    /\ UNCHANGED <<txs, status, balance>>
    /\ LedgerFrame

\* a transaction of the address is committed
LedgerTx ==
    /\ kind = "check_tx"
    /\ txs < MaxTxs
    /\ txs' = txs + 1
    /\ UNCHANGED <<channels, status, balance>>
    /\ LedgerFrame

\* the contract settles the packet
ContractStatus ==
    /\ kind = "status_change"
    /\ status = PENDING
    /\ status' \in {SUCCESS, FAIL}
    /\ UNCHANGED <<channels, txs, balance>>
    /\ LedgerFrame

\* the destination balance moves
LedgerBalance ==
    /\ kind = "balance_change"
    /\ \E b \in 0..MaxBalance : b # balance /\ balance' = b
    /\ UNCHANGED <<channels, txs, status>>
    /\ LedgerFrame

WaitIdle ==
    /\ pc = "idle"
    /\ kind = "none"
    /\ withTimeout = FALSE
    /\ timeout = 0
    /\ elapsed = 0
    /\ polls = 0
    /\ lastPoll = PyBool(FALSE)
    /\ waitResult = "none"
    /\ callResult = "none"
    /\ channels = <<>>
    /\ channel_id = ChannelId(0)
    /\ target = STATE_OPEN
    /\ txs = 0
    /\ num_txs = 0
    /\ status = PENDING
    /\ balance = 0
    /\ old_balance = 0
    /\ everTrue = FALSE

WaitNext ==
    \/ CallWaitForCheckChannelReady
    \/ CallWaitBalanceChange
    \/ CallWaitForCheckTx
    \/ CallWaitForStatusChange
    \/ WaitIteration
    \/ LedgerChannelOpenInit
    \/ LedgerChannelAdvance
    \/ LedgerTx
    \/ ContractStatus
    \/ LedgerBalance

(***************************************************************************)
(* Denomination derivation.  Strings are sequences of characters here.     *)
(* hashlib.sha256 is modelled as a collision-free digest: the digest bytes *)
(* of a message are the message's bytes, so two digests agree exactly when *)
(* the hashed messages do; the hex rendering and the casing are computed.  *)
(***************************************************************************)
DenomChars == {"c", "/"}
DenomStrings == SeqsUpTo(DenomChars, MaxStrLen)

\* ord() of the characters that occur
ord(ch) ==
    CASE ch = "/" -> 47
      [] ch = "-" -> 45
      [] ch = "0" -> 48
      [] ch = "1" -> 49
      [] ch = "2" -> 50
      [] ch = "3" -> 51
      [] ch = "4" -> 52
      [] ch = "5" -> 53
      [] ch = "6" -> 54
      [] ch = "7" -> 55
      [] ch = "8" -> 56
      [] ch = "9" -> 57
      [] ch = "b" -> 98
      [] ch = "h" -> 104
      [] ch = "l" -> 108
      [] ch = "o" -> 111
      [] ch = "a" -> 97
      [] ch = "c" -> 99
      [] ch = "e" -> 101
      [] ch = "f" -> 102
      [] ch = "n" -> 110
      [] ch = "r" -> 114
      [] ch = "s" -> 115
      [] ch = "t" -> 116

\* str.encode()
encode(str) == [i \in 1..Len(str) |-> ord(str[i])]

sha256(bytes) == bytes

HexDigits == <<"0", "1", "2", "3", "4", "5", "6", "7", "8", "9",
               "a", "b", "c", "d", "e", "f">>

\* hexdigest(): two lower-case hex digits a byte
RECURSIVE hexdigest(_)
hexdigest(digest) ==
    IF digest = <<>> THEN <<>>
    ELSE <<HexDigits[(Head(digest) \div 16) + 1], HexDigits[(Head(digest) % 16) + 1]>>
            \o hexdigest(Tail(digest))

upper_char(ch) ==
    CASE ch = "a" -> "A"
      [] ch = "b" -> "B"
      [] ch = "c" -> "C"
      [] ch = "d" -> "D"
      [] ch = "e" -> "E"
      [] ch = "f" -> "F"
      [] OTHER -> ch

\* str.upper()
upper(str) == [i \in 1..Len(str) |-> upper_char(str[i])]

\* f"transfer/{channel}/{denom}"
transfer_path(channel, denom) ==
    <<"t", "r", "a", "n", "s", "f", "e", "r", "/">> \o channel \o <<"/">> \o denom

\* a mutant: the casing step is lost
ibc_denom_lower(channel, denom) ==
    Str(<<"i", "b", "c", "/">> \o hexdigest(sha256(encode(transfer_path(channel, denom)))))

\* ibc_denom(channel, denom): no input is refused
ibc_denom(channel, denom) ==
    LET h == upper(hexdigest(sha256(encode(transfer_path(channel, denom)))))
    IN Str(<<"i", "b", "c", "/">> \o h)

\* a call of ibc_denom; the state keeps the last two calls, newest first
CallIbcDenom ==
    /\ Len(denomCalls) < 2
    /\ \E channel \in DenomStrings, denom \in DenomStrings :
        /\ denomCalls' = <<[channel |-> channel, denom |-> denom,
                            result |-> ibc_denom(channel, denom)]>> \o denomCalls
        /\ UNCHANGED <<scen, scenPc, scenChannel, scenDenom, scenIbcDenom, scenTrace>>
        /\ UNCHANGED <<dupVars, waitVars, xferVars, chanVars, icaVars>>

\* a mutant: the inline derivation hashes the path without the port prefix
multi_transfer_denom_noport(channel1, denom0) ==
    LET path == channel1 \o <<"/">> \o denom0
        denom_hash == upper(hexdigest(sha256(encode(path))))
    IN Str(<<"i", "b", "c", "/">> \o denom_hash)

\* ibc_multi_transfer: path, denom_hash and expected[1]["denom"]
multi_transfer_denom(channel1, denom0) ==
    LET path == <<"t", "r", "a", "n", "s", "f", "e", "r", "/">> \o channel1 \o <<"/">> \o denom0
        denom_hash == upper(hexdigest(sha256(encode(path))))
    IN Str(<<"i", "b", "c", "/">> \o denom_hash)

\* ibc_incentivized_transfer: path, denom_hash and the receiver's second balance entry
incentivized_transfer_denom(dst_channel, base_denom) ==
    LET path == <<"t", "r", "a", "n", "s", "f", "e", "r", "/">> \o dst_channel \o <<"/">> \o base_denom
        denom_hash == upper(hexdigest(sha256(encode(path))))
    IN Str(<<"i", "b", "c", "/">> \o denom_hash)

\* assert denom_trace == {"path": f"transfer/{channel}", "base_denom": denom}
denom_trace_assert(denom_trace, channel, denom) ==
    denom_trace = [path |-> <<"t", "r", "a", "n", "s", "f", "e", "r", "/">> \o channel,
                   base_denom |-> denom]

\* the denom traces the ledger may answer
TraceReplies ==
    {[path |-> <<"t", "r", "a", "n", "s", "f", "e", "r", "/">> \o c, base_denom |-> d] :
        c \in DenomStrings, d \in DenomStrings}

\* ibc_multi_transfer computes the denomination it expects
MultiTransferDerive ==
    /\ scen = "none"
    /\ \E channel1 \in DenomStrings, denom0 \in DenomStrings :
        /\ scen' = "multi"
        /\ scenPc' = "derived"
        /\ scenChannel' = channel1
        /\ scenDenom' = denom0
        /\ scenIbcDenom' = multi_transfer_denom(channel1, denom0)
        /\ UNCHANGED <<denomCalls, scenTrace>>
        /\ UNCHANGED <<dupVars, waitVars, xferVars, chanVars, icaVars>>

\* ibc_incentivized_transfer computes the denomination it expects
IncentivizedTransferDerive ==
    /\ scen = "none"
    /\ \E dst_channel \in DenomStrings, base_denom \in DenomStrings :
        /\ scen' = "incentivized"
        /\ scenPc' = "derived"
        /\ scenChannel' = dst_channel
        /\ scenDenom' = base_denom
        /\ scenIbcDenom' = incentivized_transfer_denom(dst_channel, base_denom)
        /\ UNCHANGED <<denomCalls, scenTrace>>
        /\ UNCHANGED <<dupVars, waitVars, xferVars, chanVars, icaVars>>

\* the scenario queries the denom trace of its path and asserts on the answer
DenomTraceQuery ==
    /\ scenPc = "derived"
    /\ \E reply \in TraceReplies :
        /\ scenTrace' = reply
        /\ scenPc' = IF denom_trace_assert(reply, scenChannel, scenDenom)
                     THEN "trace_ok" ELSE "AssertionError"
        /\ UNCHANGED <<denomCalls, scen, scenChannel, scenDenom, scenIbcDenom>>
        /\ UNCHANGED <<dupVars, waitVars, xferVars, chanVars, icaVars>>

DenomNext == CallIbcDenom

ScenarioDenomNext == MultiTransferDerive \/ IncentivizedTransferDerive \/ DenomTraceQuery

DenomIdle ==
    /\ denomCalls = <<>>
    /\ scen = "none"
    /\ scenPc = "start"
    /\ scenChannel = <<>>
    /\ scenDenom = <<>>
    /\ scenIbcDenom = <<>>
    /\ scenTrace = <<>>

(***************************************************************************)
(* The transfer scenarios: ibc_multi_transfer, ibc_incentivized_transfer   *)
(* and ica_ctrl_send_tx, one program position at a time.  A behaviour is   *)
(* one run of one of them against two ledgers that move on their own: the  *)
(* ledgers are not part of the program, so every balance may take any of   *)
(* a few values around the ones the scenario expects, except that the fee  *)
(* accounts of the relayer and of its caller only ever receive.            *)
(*                                                                         *)
(* Python's integers are unbounded and the balances (3*10^22 and 10^21)    *)
(* exceed the integers of the model checker: they are replaced by          *)
(* stand-ins that keep their order and stay far above every amount moved.  *)
(***************************************************************************)
\* an exception with its message
RaiseMsg(e, msg) == <<"raise", e, msg>>
\* a list value
PyList(l) == <<"list", l>>

Channel0 == <<"c", "h", "a", "n", "n", "e", "l", "-", "0">>
Basetcro == <<"b", "a", "s", "e", "t", "c", "r", "o">>
Basecro == <<"b", "a", "s", "e", "c", "r", "o">>
Ibcfee == <<"i", "b", "c", "f", "e", "e">>

\* amount = 1000, in both transfer scenarios
AMOUNT == 1000
\* amt = amount // 2
amt == AMOUNT \div 2
\* ibc_multi_transfer: old_balance0 as the scenario starts (3*10^22 in the source)
old_balance0_initial == 2000000000
\* ibc_multi_transfer: old_balance1, also the receiver's balance asserted by
\* ibc_incentivized_transfer (10^21 in the source)
old_balance1 == 1000000000
\* ibc_incentivized_transfer: the sender's base balance it asserts first
\* (3*10^22 + 10^11 in the source)
sender_base_initial == 2000100000
\* ibc_incentivized_transfer: fee_amount of the transfer back
fee_amount == 100000000
\* ibc_incentivized_transfer: fee = f"10{fee_denom}", each of recv_fee, ack_fee, timeout_fee
fee == 10

\* the sender's fee-denom funds as the scenario starts
SenderFeeFunds == 40
\* the packet sequences the ledger may assign
MaxSeq == 2

\* cosmos_cli().balances(addr): the coins of the account, amounts in decimal
balances(coins) ==
    [i \in 1..Len(coins) |-> [denom |-> coins[i].denom, amount |-> ToString(coins[i].amount)]]

\* cosmos_cli().balance(addr, denom): the amount of one denom, 0 when absent
balance_of(coins, denom) ==
    LET at == {i \in 1..Len(coins) : coins[i].denom = denom}
    IN IF at = {} THEN 0 ELSE coins[CHOOSE i \in at : TRUE].amount

\* a mutant: the response code is not looked at
assert_code_ignored(r) == None

\* assert rsp["code"] == 0, rsp["raw_log"]
assert_code(r) ==
    IF r.code = 0 THEN None ELSE RaiseMsg("AssertionError", Str(r.raw_log))

\* ibc_multi_transfer: expected
expected ==
    <<[denom |-> Str(Basecro), amount |-> ToString(old_balance1)],
      [denom |-> multi_transfer_denom(Channel0, Basetcro), amount |-> ToString(AMOUNT)]>>

\* a mutant: any list with a second entry ends the wait
assert_trace_balance_anylist(bal) ==
    IF Len(bal) > 1 THEN PyBool(TRUE) ELSE PyBool(FALSE)

\* ibc_multi_transfer: assert_trace_balance, given the answer of balances(addr)
assert_trace_balance(bal) ==
    IF Len(bal) > 1
    THEN IF bal = expected THEN PyBool(TRUE)
         ELSE RaiseMsg("AssertionError", PyList(bal))
    ELSE PyBool(FALSE)

\* a mutant: the threshold is not strict and the value is not asserted
assert_balance_nonstrict(bal, old0) ==
    IF bal >= old0 - AMOUNT THEN PyBool(TRUE) ELSE PyBool(FALSE)

\* ibc_multi_transfer: assert_balance, given the answer of balance(addr, denom0)
\* and the current old_balance0
assert_balance(bal, old0) ==
    IF bal > old0 - AMOUNT
    THEN IF bal = old0 - amt THEN PyBool(TRUE)
         ELSE RaiseMsg("AssertionError", PyInt(bal))
    ELSE PyBool(FALSE)

\* a mutant: any locked amount passes
fee_locked_assert_any(current, old_amt_sender_fee) == None

\* ibc_incentivized_transfer: assert current == old_amt_sender_fee - 20, current
fee_locked_assert(current, old_amt_sender_fee) ==
    IF current = old_amt_sender_fee - 20 THEN None
    ELSE RaiseMsg("AssertionError", PyInt(current))

\* a mutant: the division of the reward is not asserted
check_fee_noassert(relayer_amount, amount_caller, old_amt_fee, old_amt_fee_caller) ==
    IF relayer_amount > old_amt_fee THEN PyBool(TRUE) ELSE PyBool(FALSE)

\* a mutant: the relayer's own share is not asserted
check_fee_caller_only(relayer_amount, amount_caller, old_amt_fee, old_amt_fee_caller) ==
    IF relayer_amount > old_amt_fee
    THEN IF amount_caller > 0
         THEN IF amount_caller # old_amt_fee_caller + 10
              THEN RaiseMsg("AssertionError", PyInt(amount_caller))
              ELSE PyBool(TRUE)
         ELSE PyBool(TRUE)
    ELSE PyBool(FALSE)

\* ibc_incentivized_transfer: check_fee, given the answers of
\* balance(relayer, fee_denom) and balance(relayer_caller, fee_denom)
check_fee(relayer_amount, amount_caller, old_amt_fee, old_amt_fee_caller) ==
    IF relayer_amount > old_amt_fee
    THEN IF amount_caller > 0
         THEN IF amount_caller # old_amt_fee_caller + 10
              THEN RaiseMsg("AssertionError", PyInt(amount_caller))
              ELSE IF relayer_amount # old_amt_fee + 10
              THEN RaiseMsg("AssertionError", PyInt(relayer_amount))
              ELSE PyBool(TRUE)
         ELSE IF relayer_amount # old_amt_fee + 20
              THEN RaiseMsg("AssertionError", PyInt(relayer_amount))
              ELSE PyBool(TRUE)
    ELSE PyBool(FALSE)

\* a mutant: only the base entry of the sender's balances is compared
sender_balances_assert_baseonly(actual, old_amt_sender_base, old_amt_sender_fee) ==
    IF Len(actual) > 0 /\ actual[1] = [denom |-> Str(Basetcro),
                                       amount |-> ToString(old_amt_sender_base - AMOUNT)]
    THEN None
    ELSE RaiseMsg("AssertionError", PyList(actual))

\* ibc_incentivized_transfer: the assertion on get_balances(ibc.cronos, sender)
sender_balances_assert(actual, old_amt_sender_base, old_amt_sender_fee) ==
    IF actual = <<[denom |-> Str(Basetcro), amount |-> ToString(old_amt_sender_base - AMOUNT)],
                  [denom |-> Str(Ibcfee), amount |-> ToString(old_amt_sender_fee - 20)]>>
    THEN None
    ELSE RaiseMsg("AssertionError", PyList(actual))

\* ibc_incentivized_transfer: the assertion on get_balances(ibc.chainmain, receiver)
receiver_balances_assert(current, old_amt_receiver_base) ==
    IF current = <<[denom |-> Str(Basecro), amount |-> ToString(old_amt_receiver_base)],
                   [denom |-> incentivized_transfer_denom(Channel0, Basetcro),
                    amount |-> ToString(AMOUNT)]>>
    THEN None
    ELSE RaiseMsg("AssertionError", PyList(current))

\* one iteration of wait_for_fn around a predicate result: an exception of
\* the predicate propagates, a truthy result ends the wait, anything else
\* sleeps one interval or times out
wait_for_fn_poll(result, sleptSoFar, t) ==
    IF result[1] = "raise" THEN result
    ELSE IF IsTruthy(result) THEN <<"returned">>
    ELSE IF sleptSoFar + PollInterval >= t THEN RaiseMsg("TimeoutError", None)
    ELSE <<"sleep">>

\* the answers a ledger may give to a submitted transaction
Responses ==
    {[code |-> 0, raw_log |-> "[]"],
     [code |-> 5, raw_log |-> "insufficient funds"],
     [code |-> 11, raw_log |-> "out of gas"]}

NoLocals ==
    [old_balance0 |-> 0, leg |-> 0, observed |-> None, accepted |-> <<>>,
     native |-> None, sender |-> None, trace_balance |-> None,
     old_amt_fee |-> 0, old_amt_fee_caller |-> 0, old_amt_sender_fee |-> 0,
     old_amt_sender_base |-> 0, old_amt_receiver_base |-> 0,
     current |-> None, relayer_amount |-> None, amount_caller |-> None, actual |-> None,
     packet_seq |-> 0, num_txs |-> 0, incentivized_cb |-> FALSE, cb_seq |-> None]

\* what a step of a transfer scenario leaves alone
OthersUnchanged == UNCHANGED <<dupVars, waitVars, denomVars, chanVars, icaVars>>

\* what a step of ica_ctrl_send_tx leaves alone
IcaOthersUnchanged == UNCHANGED <<dupVars, waitVars, denomVars, chanVars>>

\* the statement at a position ends: normally, or with an exception that
\* ends the scenario there
Advance(r, next) ==
    /\ line' = IF r = None THEN next ELSE line
    /\ raised' = r

\* rsp = <a transaction is submitted>
Submit(at, next) ==
    /\ line = at
    /\ raised = None
    /\ \E r \in Responses : rsp' = r
    /\ line' = next
    /\ UNCHANGED <<scenario, raised, slept, locals>>
    /\ OthersUnchanged

\* assert rsp["code"] == 0, rsp["raw_log"]
AssertCode(at, next) ==
    /\ line = at
    /\ raised = None
    /\ Advance(assert_code(rsp), next)
    /\ UNCHANGED <<scenario, rsp, slept, locals>>
    /\ OthersUnchanged

\* an assertion on a ledger answer; the answer is kept in the locals
Assertion(at, r, next, newLocals) ==
    /\ line = at
    /\ raised = None
    /\ Advance(r, next)
    /\ locals' = newLocals
    /\ UNCHANGED <<scenario, rsp, slept>>
    /\ OthersUnchanged

\* wait_for_fn(name, fn): one iteration, fn() having answered result
Poll(at, result, next, newLocals) ==
    /\ line = at
    /\ raised = None
    /\ LET o == wait_for_fn_poll(result, slept, DefaultTimeout) IN
        /\ line' = IF o = <<"returned">> THEN next ELSE at
        /\ raised' = IF o[1] = "raise" THEN o ELSE None
        /\ slept' = IF o = <<"sleep">> THEN slept + PollInterval ELSE 0
    /\ locals' = newLocals
    /\ UNCHANGED <<scenario, rsp>>
    /\ OthersUnchanged

\* the answers a ledger may give for the sender's base balance, g being the
\* balance before the scenario
SenderBases(g) == {g - AMOUNT, g - AMOUNT + (amt \div 2), g - amt, g, g + amt}

\* the answers a ledger may give for the receiver's coins: its native coin,
\* then possibly one wrapped coin
ReceiverCoins ==
    LET natives == {[denom |-> Str(Basecro), amount |-> a] :
                        a \in {old_balance1, old_balance1 - fee_amount}}
        wrapped == {[denom |-> d, amount |-> a] :
                        d \in {multi_transfer_denom(Channel0, Basetcro),
                               multi_transfer_denom(Channel0, Basecro)},
                        a \in {AMOUNT, amt}}
    IN {<<n>> : n \in natives} \cup {<<n, w>> : n \in natives, w \in wrapped}

\* the answers a ledger may give for the sender's fee balance
SenderFees == {SenderFeeFunds - k * fee : k \in 0..3}

\* the answers a ledger may give for a fee account that only receives, old
\* being an earlier answer
FeeCredits(old) == {old + k * fee : k \in 0..3}

\* the denom traces a ledger may answer
XferTraceReplies ==
    {[path |-> <<"t", "r", "a", "n", "s", "f", "e", "r", "/">> \o Channel0, base_denom |-> b] :
        b \in {Basetcro, Basecro}}

\* ---- ibc_multi_transfer
StartMultiTransfer ==
    /\ scenario = "none"
    /\ scenario' = "ibc_multi_transfer"
    /\ line' = "l368"
    /\ locals' = [NoLocals EXCEPT !.old_balance0 = old_balance0_initial]
    /\ UNCHANGED <<raised, rsp, slept>>
    /\ OthersUnchanged

\* chains[0].ibc_transfer(addrs0[i], addrs1[i], f"{amount}{denom0}", channel0, 1, ...)
MultiTransferSend == scenario = "ibc_multi_transfer" /\ Submit("l368", "l377")

MultiTransferSendAccepted == scenario = "ibc_multi_transfer" /\ AssertCode("l377", "l378")

\* balance = chains[1].balance(addrs1[i], denom1); assert balance == old_balance1, balance
MultiTransferReceiverUnchanged ==
    /\ scenario = "ibc_multi_transfer"
    /\ line = "l378"
    /\ \E coins \in ReceiverCoins :
        LET bal == balance_of(coins, Str(Basecro)) IN
        Assertion("l378",
                  IF bal = old_balance1 THEN None ELSE RaiseMsg("AssertionError", PyInt(bal)),
                  "l380", [locals EXCEPT !.native = PyInt(bal)])

\* balance = chains[0].balance(addrs0[i], denom0); assert balance == old_balance0 - amount, balance
MultiTransferSenderDebited ==
    /\ scenario = "ibc_multi_transfer"
    /\ line = "l380"
    /\ \E bal \in SenderBases(old_balance0_initial) :
        Assertion("l380",
                  IF bal = locals.old_balance0 - AMOUNT THEN None
                  ELSE RaiseMsg("AssertionError", PyInt(bal)),
                  "l391", [locals EXCEPT !.sender = PyInt(bal)])

\* denom_trace = chains[0].ibc_denom_trace(path, ...); assert denom_trace == {...}
MultiTransferDenomTrace ==
    /\ scenario = "ibc_multi_transfer"
    /\ line = "l391"
    /\ \E reply \in XferTraceReplies :
        Assertion("l391",
                  IF denom_trace_assert(reply, Channel0, Basetcro) THEN None
                  ELSE RaiseMsg("AssertionError", None),
                  "l394", locals)

\* wait_for_fn("assert balance", lambda: assert_trace_balance(addrs1[i]))
MultiTransferWaitTrace ==
    /\ scenario = "ibc_multi_transfer"
    /\ line = "l394"
    /\ \E coins \in ReceiverCoins :
        LET bal == balances(coins) IN
        Poll("l394", assert_trace_balance(bal), "l409",
             [locals EXCEPT !.trace_balance = PyList(bal)])

\* chains[1].ibc_transfer(addrs1[i], addrs0[i], f"{amt}ibc/{denom_hash}", channel1, 1, ...)
MultiTransferReturnSend == scenario = "ibc_multi_transfer" /\ Submit("l409", "l417")

MultiTransferReturnAccepted == scenario = "ibc_multi_transfer" /\ AssertCode("l417", "l420")

\* wait_for_fn("assert balance", lambda: assert_balance(addrs0[i]))
MultiTransferWaitReturn ==
    /\ scenario = "ibc_multi_transfer"
    /\ line = "l420"
    /\ \E bal \in SenderBases(old_balance0_initial) :
        LET result == assert_balance(bal, locals.old_balance0) IN
        Poll("l420", result, "l422",
             [locals EXCEPT !.observed = PyInt(bal),
                            !.accepted = IF result = PyBool(TRUE) THEN Append(@, bal) ELSE @])

\* old_balance0 += amt, and the next round of range(0, 2)
MultiTransferNextLeg ==
    /\ scenario = "ibc_multi_transfer"
    /\ line = "l422"
    /\ locals' = [locals EXCEPT !.old_balance0 = @ + amt, !.leg = @ + 1]
    /\ line' = IF locals.leg + 1 < 2 THEN "l409" ELSE "returned"
    /\ UNCHANGED <<scenario, raised, rsp, slept>>
    /\ OthersUnchanged

\* ---- ibc_incentivized_transfer
StartIncentivizedTransfer ==
    /\ scenario = "none"
    /\ scenario' = "ibc_incentivized_transfer"
    /\ line' = "l434"
    /\ locals' = NoLocals
    /\ UNCHANGED <<raised, rsp, slept>>
    /\ OthersUnchanged

\* old_amt_fee, old_amt_fee_caller, old_amt_sender_fee, old_amt_sender_base and
\* old_amt_receiver_base are read, and the two base balances asserted
IncentivizedSnapshot ==
    /\ scenario = "ibc_incentivized_transfer"
    /\ line = "l434"
    /\ \E relayer_funds \in {0, fee}, caller_funds \in {0, fee},
          sender_base \in SenderBases(sender_base_initial), coins \in ReceiverCoins :
        LET receiver_base == balance_of(coins, Str(Basecro)) IN
        Assertion("l434",
                  IF sender_base = sender_base_initial /\ receiver_base = old_balance1
                  THEN None ELSE RaiseMsg("AssertionError", None),
                  "l443",
                  [locals EXCEPT !.old_amt_fee = relayer_funds,
                                 !.old_amt_fee_caller = caller_funds,
                                 !.old_amt_sender_fee = SenderFeeFunds,
                                 !.old_amt_sender_base = sender_base,
                                 !.old_amt_receiver_base = receiver_base])

\* chains[0].ibc_transfer(sender, receiver, f"{amount}{base_denom}", src_channel, 1, fees="0basecro")
IncentivizedSend == scenario = "ibc_incentivized_transfer" /\ Submit("l443", "l451")

IncentivizedSendAccepted == scenario = "ibc_incentivized_transfer" /\ AssertCode("l451", "l453")

\* packet_seq = int(evt["packet_sequence"]) of the queried send_packet event
IncentivizedPacketSeq ==
    /\ scenario = "ibc_incentivized_transfer"
    /\ line = "l453"
    /\ \E seq \in 1..MaxSeq : locals' = [locals EXCEPT !.packet_seq = seq]
    /\ line' = "l462"
    /\ UNCHANGED <<scenario, raised, rsp, slept>>
    /\ OthersUnchanged

\* chains[0].pay_packet_fee("transfer", src_channel, packet_seq, recv_fee=fee, ack_fee=fee, timeout_fee=fee, ...)
IncentivizedPayPacketFee == scenario = "ibc_incentivized_transfer" /\ Submit("l462", "l471")

IncentivizedPayAccepted == scenario = "ibc_incentivized_transfer" /\ AssertCode("l471", "l473")

\* current = chains[0].balance(sender, fee_denom); assert current == old_amt_sender_fee - 20, current
IncentivizedFeeLocked ==
    /\ scenario = "ibc_incentivized_transfer"
    /\ line = "l473"
    /\ \E current \in SenderFees :
        Assertion("l473", fee_locked_assert(current, locals.old_amt_sender_fee), "l491",
                  [locals EXCEPT !.current = PyInt(current)])

\* wait_for_fn("wait for relayer to receive the fee", check_fee)
IncentivizedWaitFee ==
    /\ scenario = "ibc_incentivized_transfer"
    /\ line = "l491"
    /\ \E relayer_amount \in FeeCredits(locals.old_amt_fee),
          amount_caller \in FeeCredits(locals.old_amt_fee_caller) :
        Poll("l491",
             check_fee(relayer_amount, amount_caller,
                       locals.old_amt_fee, locals.old_amt_fee_caller),
             "l493",
             [locals EXCEPT !.relayer_amount = PyInt(relayer_amount),
                            !.amount_caller = PyInt(amount_caller)])

\* actual = get_balances(ibc.cronos, sender); assert actual == [...], actual
IncentivizedSenderSettled ==
    /\ scenario = "ibc_incentivized_transfer"
    /\ line = "l493"
    /\ \E sender_base \in SenderBases(sender_base_initial), sender_fee \in SenderFees :
        LET actual == balances(<<[denom |-> Str(Basetcro), amount |-> sender_base],
                                 [denom |-> Str(Ibcfee), amount |-> sender_fee]>>)
        IN Assertion("l493",
                     sender_balances_assert(actual, locals.old_amt_sender_base,
                                            locals.old_amt_sender_fee),
                     "l499", [locals EXCEPT !.actual = PyList(actual)])

\* denom_trace = chains[0].ibc_denom_trace(path, ...); assert denom_trace == {...}
IncentivizedDenomTrace ==
    /\ scenario = "ibc_incentivized_transfer"
    /\ line = "l499"
    /\ \E reply \in XferTraceReplies :
        Assertion("l499",
                  IF denom_trace_assert(reply, Channel0, Basetcro) THEN None
                  ELSE RaiseMsg("AssertionError", None),
                  "l503", locals)

\* current = get_balances(ibc.chainmain, receiver); assert current == [...], current
IncentivizedReceiverSettled ==
    /\ scenario = "ibc_incentivized_transfer"
    /\ line = "l503"
    /\ \E coins \in ReceiverCoins :
        LET current == balances(coins) IN
        Assertion("l503", receiver_balances_assert(current, locals.old_amt_receiver_base),
                  "l510", [locals EXCEPT !.trace_balance = PyList(current)])

\* chains[1].ibc_transfer(receiver, sender, f"{amount}ibc/{denom_hash}", dst_channel, 1, ...)
IncentivizedSendBack == scenario = "ibc_incentivized_transfer" /\ Submit("l510", "l518")

IncentivizedSendBackAccepted == scenario = "ibc_incentivized_transfer" /\ AssertCode("l518", "l523")

\* wait_for_fn("balance change", check_balance_change)
IncentivizedWaitBack ==
    /\ scenario = "ibc_incentivized_transfer"
    /\ line = "l523"
    /\ \E sender_base \in SenderBases(sender_base_initial) :
        Poll("l523",
             check_balance_change(sender_base, locals.old_amt_sender_base - AMOUNT),
             "l524", [locals EXCEPT !.observed = PyInt(sender_base)])

\* actual = chains[0].balance(sender, base_denom); assert actual == old_amt_sender_base, actual
IncentivizedSenderRestored ==
    /\ scenario = "ibc_incentivized_transfer"
    /\ line = "l524"
    /\ \E actual \in SenderBases(sender_base_initial) :
        Assertion("l524",
                  IF actual = locals.old_amt_sender_base THEN None
                  ELSE RaiseMsg("AssertionError", PyInt(actual)),
                  "l526", [locals EXCEPT !.observed = PyInt(actual)])

\* current = chains[1].balance(receiver, "basecro"); assert current == old_amt_receiver_base - fee_amount
IncentivizedReceiverCharged ==
    /\ scenario = "ibc_incentivized_transfer"
    /\ line = "l526"
    /\ \E coins \in ReceiverCoins :
        LET current == balance_of(coins, Str(Basecro)) IN
        Assertion("l526",
                  IF current = locals.old_amt_receiver_base - fee_amount THEN None
                  ELSE RaiseMsg("AssertionError", None),
                  "returned", [locals EXCEPT !.native = PyInt(current)])

\* ---- ica_ctrl_send_tx
\* the transactions of the interchain account the host chain commits between
\* two steps of the function
HostTxArrivals == 0..(MaxTxs - hostTxs)

Call(op, value) == [op |-> op, value |-> value]

\* num_txs = len(cli_host.query_all_txs(ica_address)["txs"])
StartIcaCtrlSendTx ==
    /\ scenario = "none"
    /\ \E n \in 0..(MaxTxs - 1), cb \in BOOLEAN :
        /\ hostTxs' = n
        /\ locals' = [NoLocals EXCEPT !.num_txs = n, !.incentivized_cb = cb]
        /\ calls' = <<Call("query_all_txs", n)>>
    /\ scenario' = "ica_ctrl_send_tx"
    /\ line' = "l853"
    /\ UNCHANGED <<raised, rsp, slept, txsAtSubmit>>
    /\ IcaOthersUnchanged

\* rsp = cli_controller.ica_ctrl_send_tx(connid, json.dumps(packet), from_="signer2", **kwargs)
IcaSend ==
    /\ scenario = "ica_ctrl_send_tx"
    /\ line = "l853"
    /\ raised = None
    /\ \E r \in Responses, k \in HostTxArrivals :
        /\ rsp' = r
        /\ hostTxs' = hostTxs + k
        /\ txsAtSubmit' = hostTxs + k
        /\ calls' = Append(calls, Call("ica_ctrl_send_tx", r.code))
    /\ line' = "l859"
    /\ UNCHANGED <<scenario, raised, slept, locals>>
    /\ IcaOthersUnchanged

\* assert rsp["code"] == 0, rsp["raw_log"]
IcaSendAccepted ==
    /\ scenario = "ica_ctrl_send_tx"
    /\ line = "l859"
    /\ raised = None
    /\ Advance(assert_code(rsp), "l860")
    /\ \E k \in HostTxArrivals : hostTxs' = hostTxs + k
    /\ UNCHANGED <<scenario, rsp, slept, locals, txsAtSubmit, calls>>
    /\ IcaOthersUnchanged

\* seq = int(events.get("send_packet")["packet_sequence"]); incentivized_cb(seq) if given
IcaPacketSeq ==
    /\ scenario = "ica_ctrl_send_tx"
    /\ line = "l860"
    /\ raised = None
    /\ \E seq \in 1..MaxSeq, k \in HostTxArrivals :
        /\ locals' = [locals EXCEPT !.packet_seq = seq,
                                    !.cb_seq = IF locals.incentivized_cb THEN PyInt(seq) ELSE None]
        /\ calls' = IF locals.incentivized_cb
                    THEN Append(calls, Call("incentivized_cb", seq))
                    ELSE calls
        /\ hostTxs' = hostTxs + k
    /\ line' = "l864"
    /\ UNCHANGED <<scenario, raised, rsp, slept, txsAtSubmit>>
    /\ IcaOthersUnchanged

\* wait_for_check_tx(cli_host, ica_address, num_txs): one iteration of its
\* wait_for_fn; return seq once it is over
IcaWaitForCheckTx ==
    /\ scenario = "ica_ctrl_send_tx"
    /\ line = "l864"
    /\ raised = None
    /\ \E k \in HostTxArrivals :
        LET current == hostTxs + k
            o == wait_for_fn_poll(check_tx(current, locals.num_txs), slept, DefaultTimeout)
        IN /\ hostTxs' = current
           /\ calls' = Append(calls, Call("query_all_txs", current))
           /\ locals' = [locals EXCEPT !.observed = PyInt(current)]
           /\ line' = IF o = <<"returned">> THEN "returned" ELSE "l864"
           /\ raised' = IF o[1] = "raise" THEN o ELSE None
           /\ slept' = IF o = <<"sleep">> THEN slept + PollInterval ELSE 0
    /\ UNCHANGED <<scenario, rsp, txsAtSubmit>>
    /\ IcaOthersUnchanged

IcaIdle ==
    /\ hostTxs = 0
    /\ txsAtSubmit = 0
    /\ calls = <<>>

XferIdle ==
    /\ scenario = "none"
    /\ line = "start"
    /\ raised = None
    /\ rsp = [code |-> 0, raw_log |-> "[]"]
    /\ slept = 0
    /\ locals = NoLocals

MultiTransferNext ==
    \/ StartMultiTransfer
    \/ MultiTransferSend
    \/ MultiTransferSendAccepted
    \/ MultiTransferReceiverUnchanged
    \/ MultiTransferSenderDebited
    \/ MultiTransferDenomTrace
    \/ MultiTransferWaitTrace
    \/ MultiTransferReturnSend
    \/ MultiTransferReturnAccepted
    \/ MultiTransferWaitReturn
    \/ MultiTransferNextLeg

IncentivizedNext ==
    \/ StartIncentivizedTransfer
    \/ IncentivizedSnapshot
    \/ IncentivizedSend
    \/ IncentivizedSendAccepted
    \/ IncentivizedPacketSeq
    \/ IncentivizedPayPacketFee
    \/ IncentivizedPayAccepted
    \/ IncentivizedFeeLocked
    \/ IncentivizedWaitFee
    \/ IncentivizedSenderSettled
    \/ IncentivizedDenomTrace
    \/ IncentivizedReceiverSettled
    \/ IncentivizedSendBack
    \/ IncentivizedSendBackAccepted
    \/ IncentivizedWaitBack
    \/ IncentivizedSenderRestored
    \/ IncentivizedReceiverCharged

IcaNext ==
    \/ StartIcaCtrlSendTx
    \/ IcaSend
    \/ IcaSendAccepted
    \/ IcaPacketSeq
    \/ IcaWaitForCheckTx

TransferNext == MultiTransferNext \/ IncentivizedNext \/ IcaNext

(***************************************************************************)
(* get_next_channel.  Channel ids are sequences of characters here, since  *)
(* max() compares them as strings.                                         *)
(***************************************************************************)
\* the largest channel index the ledger has handed out
MaxChannelIndex == 10

\* prefix = "channel-"
prefix == <<"c", "h", "a", "n", "n", "e", "l", "-">>

DecimalDigits == <<"0", "1", "2", "3", "4", "5", "6", "7", "8", "9">>

\* f"{c}" of a non-negative int
RECURSIVE format_int(_)
format_int(n) ==
    IF n < 10 THEN <<DecimalDigits[n + 1]>>
    ELSE format_int(n \div 10) \o <<DecimalDigits[(n % 10) + 1]>>

\* int(s) of a string of decimal digits
RECURSIVE int_of(_)
int_of(s) ==
    IF s = <<>> THEN 0
    ELSE int_of(SubSeq(s, 1, Len(s) - 1)) * 10
            + ((CHOOSE d \in 1..10 : DecimalDigits[d] = s[Len(s)]) - 1)

\* str.removeprefix(p)
removeprefix(s, p) ==
    IF Len(s) >= Len(p) /\ SubSeq(s, 1, Len(p)) = p
    THEN SubSeq(s, Len(p) + 1, Len(s))
    ELSE s

\* a < b for two strings: by code point, a proper prefix being smaller
RECURSIVE str_less(_, _)
str_less(a, b) ==
    IF b = <<>> THEN FALSE
    ELSE IF a = <<>> THEN TRUE
    ELSE IF ord(Head(a)) # ord(Head(b)) THEN ord(Head(a)) < ord(Head(b))
    ELSE str_less(Tail(a), Tail(b))

\* max(channel["channel_id"] for channel in channels): the ids are strings
max_channel_id(ids) ==
    CHOOSE m \in {ids[i] : i \in 1..Len(ids)} :
        \A i \in 1..Len(ids) : ~str_less(m, ids[i])

\* get_next_channel(cli, connid), given the channel ids the query answered
get_next_channel(ids) ==
    LET c == IF Len(ids) > 0
             THEN int_of(removeprefix(max_channel_id(ids), prefix)) + 1
             ELSE 0
    IN Str(prefix \o format_int(c))

\* the channels of a connection, in the order of their indices
RECURSIVE ChannelIdsOf(_)
ChannelIdsOf(indices) ==
    IF indices = {} THEN <<>>
    ELSE LET top == CHOOSE n \in indices : \A k \in indices : k <= n
         IN Append(ChannelIdsOf(indices \ {top}), prefix \o format_int(top))

\* a call of get_next_channel on a connection
CallGetNextChannel ==
    /\ nextChannel = None
    /\ \E indices \in SUBSET (0..MaxChannelIndex) :
        /\ connChannels' = ChannelIdsOf(indices)
        /\ nextChannel' = get_next_channel(ChannelIdsOf(indices))
    /\ UNCHANGED <<dupVars, waitVars, denomVars, xferVars, icaVars>>

ChanIdle ==
    /\ connChannels = <<>>
    /\ nextChannel = None

Init == DupIdle /\ WaitIdle /\ DenomIdle /\ XferIdle /\ ChanIdle /\ IcaIdle

FindDuplicateSpec == Init /\ [][FindDuplicateNext]_vars
EventsSpec == Init /\ [][EventsNext]_vars
WaitSpec == Init /\ [][WaitNext]_vars
\* wait_for_fn runs in the scenario's only thread: nothing else can keep it
\* from taking its next iteration
FairWaitSpec == WaitSpec /\ WF_vars(WaitIteration)
DenomSpec == Init /\ [][DenomNext]_vars
ScenarioDenomSpec == Init /\ [][ScenarioDenomNext]_vars
IncentivizedSpec == Init /\ [][IncentivizedNext]_vars
TransferSpec == Init /\ [][TransferNext]_vars
\* ica_ctrl_send_tx runs in a single thread: nothing else can keep its
\* wait from taking the next iteration
FairTransferSpec == TransferSpec /\ WF_vars(IcaWaitForCheckTx)
GetNextChannelSpec == Init /\ [][CallGetNextChannel]_vars

(***************************************************************************)
(* Properties                                                              *)
(***************************************************************************)

\* ---- find_duplicate: the record pairs of an attribute sequence
\* the value of the latest attribute up to i that carries the first attribute's key
KeyValueAt(attrs, i) ==
    LET js == {j \in 1..i : attrs[j].key = attrs[1].key}
        last == CHOOSE j \in js : \A k \in js : k <= j
    IN attrs[last].value
PairAt(attrs, i) == <<KeyValueAt(attrs, i), attrs[i].value>>
AmountPositions(attrs) == {i \in 1..Len(attrs) : attrs[i].key = "amount"}
\* the positions at which an earlier pair recurs
Recurrences(attrs) ==
    {i \in AmountPositions(attrs) :
        \E j \in AmountPositions(attrs) : j < i /\ PairAt(attrs, j) = PairAt(attrs, i)}
FirstRecurrence(attrs) ==
    CHOOSE i \in Recurrences(attrs) : \A k \in Recurrences(attrs) : i <= k

\* C1: find_duplicate returns None when no (first-key value, amount) pair
\* occurs twice, and otherwise the first pair to recur, as "<value>:<amount>".
C1_FindDuplicateContract ==
    dupOp = "find_duplicate" =>
        IF Recurrences(attributes) = {} THEN fdResult = None
        ELSE LET p == PairAt(attributes, FirstRecurrence(attributes))
             IN fdResult = Str(p[1] \o ":" \o p[2])

\* ---- assert_duplicate
\* two events that are not of type "message" serialize to the same string
SameSerialization(evts) ==
    \E i, j \in 1..Len(evts) :
        /\ i < j
        /\ evts[i].type # "message"
        /\ evts[j].type # "message"
        /\ json_dumps(evts[i]) = json_dumps(evts[j])
\* some "message" event occurs twice
RepeatedMessage(evts) ==
    \E i, j \in 1..Len(evts) :
        i < j /\ evts[i].type = "message" /\ evts[i] = evts[j]

\* C2: assert_duplicate fails exactly when two non-"message" events of the
\* transaction result serialize identically; "message" events never make it fail.
C2_AssertDuplicateIff ==
    dupOp = "assert_duplicate" =>
        /\ adResult \in {None, Raise("AssertionError")}
        /\ (adResult = Raise("AssertionError")) <=> SameSerialization(events)

C2_Witness ==
    /\ dupOp = "assert_duplicate"
    /\ RepeatedMessage(events)
    /\ adResult = None
    /\ Len(events) = MaxEvents

\* ---- wait_for_fn
WaitOutcomeOk ==
    /\ waitResult \in {"none", "returned", "TimeoutError"}
    /\ (pc = "done") <=> (waitResult # "none")
    /\ pc = "polling" =>
        /\ elapsed < timeout
        /\ elapsed = polls * PollInterval
        /\ polls > 0 => ~IsTruthy(lastPoll)
    /\ waitResult = "returned" =>
        /\ polls >= 1
        /\ IsTruthy(lastPoll)
        /\ everTrue
        /\ elapsed = (polls - 1) * PollInterval
        /\ elapsed < timeout
    /\ waitResult = "TimeoutError" =>
        /\ polls > 0 => ~IsTruthy(lastPoll)
        /\ elapsed = polls * PollInterval
        /\ elapsed >= timeout
        /\ elapsed < timeout + PollInterval

C4_NegativeAssertion ==
    (kind \in {"check_tx", "status_change"} /\ withTimeout /\ pc = "done") =>
        /\ callResult \in {"ok", "UnboundLocalError"}
        /\ (callResult = "ok") <=> (waitResult = "TimeoutError")
        /\ (callResult = "ok") <=> ~everTrue

C4_Witness ==
    /\ kind = "check_tx"
    /\ withTimeout
    /\ callResult = "UnboundLocalError"
    /\ polls = 2

\* ---- wait_for_check_channel_ready
ChannelAtTarget ==
    \E i \in 1..Len(channels) :
        channels[i].channel_id = channel_id /\ channels[i].state = target
ChannelAbsent ==
    \A i \in 1..Len(channels) : channels[i].channel_id # channel_id

\* C5: the wait returns only on a poll that sees the channel in the target
\* state; a poll that sees the channel absent, or in another state, is "not yet".
C5_ChannelReadyOnlyAtTarget ==
    [][(kind = "channel_ready" /\ polls' = polls + 1) =>
        /\ callResult' = "ok" => ChannelAtTarget
        /\ ChannelAbsent => (lastPoll' = PyBool(FALSE) /\ callResult' \in {"none", "TimeoutError"})
        /\ (~ChannelAbsent /\ ~ChannelAtTarget) =>
                (lastPoll' = PyBool(FALSE) /\ callResult' \in {"none", "TimeoutError"})]_vars

C5_Witness ==
    /\ kind = "channel_ready"
    /\ callResult = "ok"
    /\ polls > 2
    /\ Len(channels) = MaxChannels
    /\ channel_id = ChannelId(1)

\* C6: with the target STATE_OPEN, a channel that is open while the wait is
\* polling makes the wait return; the wait never hangs; and it ends in
\* TimeoutError after 30 seconds unless the channel was open at some time.
C6_HandshakeLiveness ==
    /\ (kind = "channel_ready" /\ target = STATE_OPEN /\ pc = "polling" /\ ChannelAtTarget)
            ~> (callResult = "ok")
    /\ (kind = "channel_ready" /\ pc = "polling") ~> (pc = "done")
    /\ (kind = "channel_ready" /\ target = STATE_OPEN /\ pc = "polling")
            ~> (callResult = "TimeoutError" \/ ChannelAtTarget)
    /\ [](kind = "channel_ready" /\ target = STATE_OPEN /\ pc = "done" =>
            /\ callResult = "ok" => ChannelAtTarget
            /\ callResult = "TimeoutError" => (~everTrue /\ elapsed = ChannelReadyTimeout))

C6_Witness ==
    /\ kind = "channel_ready"
    /\ target = STATE_OPEN
    /\ callResult = "ok"
    /\ channel_id = ChannelId(0)
    /\ elapsed = ChannelReadyTimeout - 1

\* ---- ibc_denom
UpperHexDigits == <<"0", "1", "2", "3", "4", "5", "6", "7", "8", "9",
                    "A", "B", "C", "D", "E", "F">>
IsUpperHex(ch) == \E v \in 1..16 : UpperHexDigits[v] = ch
HexValue(ch) == (CHOOSE v \in 1..16 : UpperHexDigits[v] = ch) - 1
\* the bytes an upper-case hex string spells
DecodedBytes(h) ==
    [i \in 1..(Len(h) \div 2) |-> 16 * HexValue(h[2 * i - 1]) + HexValue(h[2 * i])]
\* SHA-256 of "transfer/" + channel + "/" + denom
ExpectedDigest(channel, denom) ==
    sha256(<<116, 114, 97, 110, 115, 102, 101, 114, 47>>
            \o encode(channel) \o <<47>> \o encode(denom))
HasDelimiter(str) == \E i \in 1..Len(str) : str[i] = "/"

DenomForm(r) ==
    /\ r.result[1] = "str"
    /\ LET d == r.result[2]
           h == SubSeq(d, 5, Len(d))
       IN /\ Len(d) >= 4
          /\ SubSeq(d, 1, 4) = <<"i", "b", "c", "/">>
          /\ Len(h) % 2 = 0
          /\ \A i \in 1..Len(h) : IsUpperHex(h[i])
          /\ DecodedBytes(h) = ExpectedDigest(r.channel, r.denom)

\* C7: ibc_denom returns "ibc/" and the upper-case hex SHA-256 of
\* "transfer/<channel>/<denom>", and calls with the same pair agree.
C7_IbcDenomPure ==
    /\ \A i \in 1..Len(denomCalls) : DenomForm(denomCalls[i])
    /\ \A i, j \in 1..Len(denomCalls) :
        (denomCalls[i].channel = denomCalls[j].channel
            /\ denomCalls[i].denom = denomCalls[j].denom)
        => denomCalls[i].result = denomCalls[j].result

C7_Witness ==
    /\ Len(denomCalls) = 2
    /\ denomCalls[1].channel = <<"c">>
    /\ denomCalls[1].denom = <<"c", "c">>
    /\ denomCalls[2].channel = <<"c">>
    /\ denomCalls[2].denom = <<"c", "c">>

\* C8: ibc_denom rejects an argument that holds "/" and returns a
\* denomination for every other input.
C8_RejectsDelimiter ==
    \A i \in 1..Len(denomCalls) :
        (HasDelimiter(denomCalls[i].channel) \/ HasDelimiter(denomCalls[i].denom))
            <=> (denomCalls[i].result[1] = "raise")

\* C9: two distinct accepted (channel, denom) pairs have distinct
\* denominations.
C9_DistinctPairsDistinctDenoms ==
    \A i, j \in 1..Len(denomCalls) :
        (/\ denomCalls[i].result[1] = "str"
         /\ denomCalls[j].result[1] = "str"
         /\ <<denomCalls[i].channel, denomCalls[i].denom>>
                # <<denomCalls[j].channel, denomCalls[j].denom>>)
        => denomCalls[i].result # denomCalls[j].result

\* C10: the denomination a scenario computes inline is ibc_denom of its
\* (channel, base denom), and past the trace assertion the queried trace is
\* {path: "transfer/<channel>", base_denom}.
C10_InlineDenomReproducible ==
    scen # "none" =>
        /\ scenIbcDenom = ibc_denom(scenChannel, scenDenom)
        /\ scenPc = "trace_ok" =>
            /\ scenTrace.path = <<"t", "r", "a", "n", "s", "f", "e", "r", "/">> \o scenChannel
            /\ scenTrace.base_denom = scenDenom

C10_Witness ==
    /\ scen = "multi"
    /\ scenPc = "trace_ok"
    /\ scenChannel = <<"c">>
    /\ scenDenom = <<"c", "c">>


(***************************************************************************)
(* Properties of the transfer scenarios.                                   *)
(***************************************************************************)
\* the positions of ibc_multi_transfer after the receiver's native balance
\* was asserted, after the sender's balance was asserted, and after the wait
\* on the receiver's balances
MultiAfterWaitTrace == {"l409", "l417", "l420", "l422", "returned"}
MultiAfterSenderDebited == {"l391", "l394"} \cup MultiAfterWaitTrace
MultiAfterReceiverUnchanged == {"l380"} \cup MultiAfterSenderDebited

\* C11: plain transfer reconciliation.  ibc_multi_transfer gets past the
\* checks that follow the accepted submission only with the receiver's
\* native balance unchanged and the sender's balance at B - A, and past the
\* wait on the receiver's balances only with the list being exactly the
\* unchanged native entry followed by the derived denom with amount A.
C11_PlainTransferReconciled ==
    (scenario = "ibc_multi_transfer") =>
        /\ (line \in MultiAfterReceiverUnchanged) => locals.native = PyInt(old_balance1)
        /\ (line \in MultiAfterSenderDebited) =>
                locals.sender = PyInt(old_balance0_initial - AMOUNT)
        /\ (line \in MultiAfterWaitTrace) =>
                locals.trace_balance =
                    PyList(<<[denom |-> Str(Basecro), amount |-> ToString(old_balance1)],
                             [denom |-> ibc_denom(Channel0, Basetcro),
                              amount |-> ToString(AMOUNT)]>>)

\* the wait on the receiver's balances has completed
C11_Witness ==
    /\ scenario = "ibc_multi_transfer"
    /\ line = "l409"
    /\ raised = None
    /\ locals.leg = 0
    /\ locals.trace_balance[1] = "list"

\* the sender's fee debit seen right after pay_packet_fee, relative to the
\* balance read before the transfer
LockedDebit == locals.old_amt_sender_fee - locals.current[2]

\* pay_packet_fee was accepted, the lock was checked and the relayer has not
\* been seen paid yet
FeeLockedUnreleased ==
    /\ scenario = "ibc_incentivized_transfer"
    /\ line = "l491"

IncentivizedAfterSenderSettled ==
    {"l499", "l503", "l510", "l518", "l523", "l524", "l526", "returned"}
IncentivizedAfterWaitFee == {"l493"} \cup IncentivizedAfterSenderSettled

\* C13: fee settlement on the success path.  Once the relayer has been paid,
\* the scenario goes on only with the sender's fee-denom balance at its
\* pre-pay value minus recv_fee + ack_fee = 20, never minus 30, and with the
\* sender's base balance at its pre-transfer value minus the amount.
C13_SuccessPathDebit ==
    (scenario = "ibc_incentivized_transfer" /\ line \in IncentivizedAfterSenderSettled) =>
        /\ locals.relayer_amount[2] > locals.old_amt_fee
        /\ Len(locals.actual[2]) = 2
        /\ locals.actual[2][1] = [denom |-> Str(Basetcro),
                                  amount |-> ToString(locals.old_amt_sender_base - AMOUNT)]
        /\ locals.actual[2][2] = [denom |-> Str(Ibcfee),
                                  amount |-> ToString(locals.old_amt_sender_fee - (fee + fee))]
        /\ locals.actual[2][2].amount # ToString(locals.old_amt_sender_fee - (fee + fee + fee))

\* the sender's balances were accepted after the relayer was paid
C13_Witness ==
    /\ scenario = "ibc_incentivized_transfer"
    /\ line = "l499"
    /\ raised = None
    /\ locals.relayer_amount[2] > locals.old_amt_fee
    /\ locals.actual[1] = "list"

\* what the relayer and its caller gained in the fee denom, by the answers
\* check_fee saw last
RelayerGain == locals.relayer_amount[2] - locals.old_amt_fee
CallerGain == locals.amount_caller[2] - locals.old_amt_fee_caller

\* C14: relayer reward.  Whenever check_fee accepts, the relayer and the
\* relayer caller together gained exactly recv_fee + ack_fee = 20: the
\* relayer alone 20, or 10 each when the caller takes part.
C14_RewardDivision ==
    (scenario = "ibc_incentivized_transfer" /\ line \in IncentivizedAfterWaitFee) =>
        /\ RelayerGain + CallerGain = fee + fee
        /\ \/ RelayerGain = 20 /\ CallerGain = 0
           \/ RelayerGain = 10 /\ CallerGain = 10

\* check_fee accepted an even split
C14_Witness ==
    /\ scenario = "ibc_incentivized_transfer"
    /\ line = "l493"
    /\ raised = None
    /\ RelayerGain = 10
    /\ CallerGain = 10

\* the acknowledged terminal state of the paid packet, as the scenario sees
\* it: the relayer was seen paid and the sender's balances were accepted
PacketAcknowledged ==
    /\ scenario = "ibc_incentivized_transfer"
    /\ line \in IncentivizedAfterSenderSettled

\* what went to the relayer side, and what came back to the sender between
\* the lock and the settlement
PaidToRelayerSide == RelayerGain + CallerGain
RefundedToSender(refund) ==
    locals.actual[2][2].amount = ToString(locals.current[2] + refund)

AfterReturnLeg(k) == old_balance0_initial - AMOUNT + k * (AMOUNT \div 2)

\* C16: round-trip convergence.  The sender balance accepted when the k-th
\* return wait completes is original - A + k * (A / 2): the accepted
\* balances increase strictly, never exceed the original and reach it with
\* the second leg, whose wait does not accept the balance the first leg left.
C16_RoundTripConverges ==
    (scenario = "ibc_multi_transfer") =>
        LET accepted == locals.accepted IN
        /\ Len(accepted) <= 2
        /\ \A k \in 1..Len(accepted) :
            /\ accepted[k] = AfterReturnLeg(k)
            /\ accepted[k] <= old_balance0_initial
            /\ k > 1 => accepted[k] > accepted[k - 1]
        /\ Len(accepted) = 2 => accepted[2] = old_balance0_initial
        /\ (line = "returned") => Len(accepted) = 2
        /\ (line \in {"l409", "l417", "l420"}) => Len(accepted) = locals.leg
        /\ (line = "l422") => Len(accepted) = locals.leg + 1
        /\ (line = "l420" /\ Len(accepted) = 1 /\ locals.observed = PyInt(accepted[1])) =>
                (raised = None \/ raised[2] = "TimeoutError")

\* both return legs were awaited and the scenario returned
C16_Witness ==
    /\ scenario = "ibc_multi_transfer"
    /\ line = "returned"
    /\ raised = None
    /\ locals.accepted = <<old_balance0_initial - 500, old_balance0_initial>>

\* a wait ended because its predicate raised
PredicateRaised == raised # None /\ raised[2] = "AssertionError"

\* ledger answers of a transfer that is under way: only part of the
\* relayer's reward credited; the sender's balance moved, but not as far as
\* the return leg will take it; the wrapped coin credited in part
PartOfRewardCredited ==
    /\ scenario = "ibc_incentivized_transfer"
    /\ line = "l491"
    /\ locals.relayer_amount # None
    /\ RelayerGain + CallerGain > 0
    /\ RelayerGain + CallerGain < fee + fee
PartOfReturnCredited ==
    /\ scenario = "ibc_multi_transfer"
    /\ line = "l420"
    /\ locals.observed # None
    /\ locals.observed[2] > locals.old_balance0 - AMOUNT
    /\ locals.observed[2] < locals.old_balance0 - amt
PartOfTransferCredited ==
    /\ scenario = "ibc_multi_transfer"
    /\ line = "l394"
    /\ locals.trace_balance # None
    /\ Len(locals.trace_balance[2]) = 2
    /\ locals.trace_balance[2][1] = expected[1]
    /\ locals.trace_balance[2][2] = [denom |-> expected[2].denom, amount |-> ToString(amt)]

\* C17: the reconciliation predicates evaluated inside a wait never raise on
\* an in-flight, not yet settled state: they answer "not yet" and the
\* polling goes on.
C17_InFlightNeverRaises ==
    (PartOfRewardCredited \/ PartOfReturnCredited \/ PartOfTransferCredited) =>
        ~PredicateRaised

\* the positions of the assertions on a response code
AssertCodeLines == {"l377", "l417", "l451", "l471", "l518", "l859"}

\* a rejected response is at the assertion that follows its submission,
\* which has not run yet or has ended the scenario with the raw_log
RejectionAtItsStep ==
    (rsp.code # 0) =>
        /\ line \in AssertCodeLines
        /\ raised = None \/ raised = RaiseMsg("AssertionError", Str(rsp.raw_log))

\* the only step a scenario takes on a rejected response is that failure,
\* and an ended scenario takes no step at all
RejectionStep ==
    /\ (rsp.code # 0 /\ raised = None) =>
            /\ raised' = RaiseMsg("AssertionError", Str(rsp.raw_log))
            /\ UNCHANGED <<scenario, line, rsp, slept, locals>>
    /\ (raised # None) => UNCHANGED xferVars

C19_NoneWithoutRepeat ==
    (dupOp = "find_duplicate" /\ Recurrences(attributes) = {}) => fdResult = None

\* a sequence that does not have the expected shape: its first key is
\* "amount", or keys other than the first key and "amount" are interleaved
StructurallyUnexpected(attrs) ==
    /\ Len(attrs) > 0
    /\ \/ attrs[1].key = "amount"
       \/ \E i \in 1..Len(attrs) : attrs[i].key \notin {attrs[1].key, "amount"}

\* C20: a structurally unexpected sequence that contains a repeated record
\* is not passed as "no duplicate".
C20_UnexpectedShapeNotPassed ==
    (/\ dupOp = "find_duplicate"
     /\ StructurallyUnexpected(attributes)
     /\ Recurrences(attributes) # {}) => fdResult # None

\* C21: find_duplicate has no false positives: it returns a result other
\* than None only if some (first-key value, amount) pair occurs at least
\* twice, whatever the values, those holding ":" included.
C21_NoFalsePositive ==
    (dupOp = "find_duplicate" /\ fdResult[1] = "str") => Recurrences(attributes) # {}

(***************************************************************************)
(* Properties of get_next_channel.                                         *)
(***************************************************************************)
\* the indices of the channels of the connection
ChannelIndices ==
    {int_of(removeprefix(connChannels[i], prefix)) : i \in 1..Len(connChannels)}

\* C22: get_next_channel returns "channel-0" for a connection without
\* channels and otherwise "channel-N", N being one more than the largest
\* existing index; the id it returns is never one the connection already
\* has, however many channels there are.
C22_NextChannelFresh ==
    (nextChannel # None) =>
        LET n == IF ChannelIndices = {} THEN 0
                 ELSE (CHOOSE m \in ChannelIndices : \A k \in ChannelIndices : k <= m) + 1
        IN /\ nextChannel = Str(prefix \o format_int(n))
           /\ \A i \in 1..Len(connChannels) : connChannels[i] # nextChannel[2]

\* check_fee was polled with the relayer alone having gained
\* recv_fee + ack_fee, and the relayer caller nothing
SoleRelayerSettlement ==
    /\ scenario = "ibc_incentivized_transfer"
    /\ locals.relayer_amount # None
    /\ locals.amount_caller # None
    /\ RelayerGain = fee + fee
    /\ CallerGain = 0

\* C23: check_fee accepts every settled state in which the relayer alone
\* gained recv_fee + ack_fee = 20 and the relayer caller gained nothing,
\* whatever fee balance the caller had before, a nonzero one included: the
\* branch taken follows the caller's gain, not its absolute balance.
C23_SoleRelayerSettlementAccepted ==
    SoleRelayerSettlement => ~(line = "l491" /\ raised # None)

(***************************************************************************)
(* Properties of wait_for_status_change.                                   *)
(***************************************************************************)
StatusWait == kind = "status_change"

\* one poll of check_status by the running wait_for_status_change
StatusPoll == StatusWait /\ pc = "polling" /\ polls' = polls + 1

\* a poll that sees PENDING never makes the wait return, and the wait goes
\* on while time is left; a poll that sees SUCCESS or FAIL ends the wait at
\* once, without another sleep
StatusPollStep ==
    StatusPoll =>
        /\ (status = PENDING) =>
                /\ waitResult' # "returned"
                /\ (elapsed + PollInterval < timeout) => (pc' = "polling" /\ callResult' = "none")
        /\ (status \in {SUCCESS, FAIL}) =>
                /\ lastPoll' = PyInt(status)
                /\ waitResult' = "returned"
                /\ pc' = "done"
                /\ elapsed' = elapsed
                /\ callResult' = IF withTimeout THEN "UnboundLocalError" ELSE "ok"

\* how a finished wait_for_status_change can have succeeded: without a
\* timeout on a poll that saw a settled status, with a timeout only by the
\* TimeoutError of a wait during which the status was never seen settled
StatusWaitSuccess ==
    (StatusWait /\ callResult = "ok") =>
        IF withTimeout
        THEN /\ waitResult = "TimeoutError"
             /\ ~everTrue
             /\ elapsed >= timeout
             /\ (polls > 0) => lastPoll = PyInt(PENDING)
        ELSE /\ waitResult = "returned"
             /\ lastPoll \in {PyInt(SUCCESS), PyInt(FAIL)}
             /\ status = lastPoll[2]

\* C24: wait_for_status_change without a timeout keeps polling while the
\* status is PENDING and returns as soon as a poll sees any other status,
\* SUCCESS and FAIL alike; with a timeout it succeeds only if the status
\* stayed PENDING for the whole timeout.
C24_StatusChangeWait ==
    /\ [][StatusPollStep]_vars
    /\ []StatusWaitSuccess
    /\ (StatusWait /\ ~withTimeout /\ pc = "polling" /\ status # PENDING) ~> (callResult = "ok")

\* the wait polled PENDING, went on, and returned on FAIL
C24_Witness ==
    /\ StatusWait
    /\ ~withTimeout
    /\ polls > 1
    /\ lastPoll = PyInt(FAIL)
    /\ callResult = "ok"

(***************************************************************************)
(* Properties of ica_ctrl_send_tx.                                         *)
(***************************************************************************)
IcaRunning == scenario = "ica_ctrl_send_tx"

\* the positions of the calls of one collaborator
CallsOf(op) == {i \in 1..Len(calls) : calls[i].op = op}

\* the first call reads the baseline, the second is the one submission; the
\* callback, if one was given, is the third call, made once the submission
\* was accepted and with the packet sequence parsed from it; every poll of
\* the wait comes after them
IcaCallOrder ==
    IcaRunning =>
        /\ calls[1] = Call("query_all_txs", locals.num_txs)
        /\ CallsOf("ica_ctrl_send_tx") = IF line = "l853" THEN {} ELSE {2}
        /\ CallsOf("incentivized_cb") =
                IF locals.incentivized_cb /\ line \in {"l864", "returned"} THEN {3} ELSE {}
        /\ \A c \in CallsOf("incentivized_cb") :
                /\ calls[2] = Call("ica_ctrl_send_tx", 0)
                /\ calls[c].value = locals.packet_seq
        /\ \A q \in CallsOf("query_all_txs") \ {1} :
                /\ line \in {"l864", "returned"}
                /\ q > 2
                /\ \A c \in CallsOf("incentivized_cb") : c < q

\* the function has returned seq: the submission was accepted and the last
\* poll counted more transactions than the baseline
IcaReturned ==
    (IcaRunning /\ line = "returned") =>
        /\ raised = None
        /\ rsp.code = 0
        /\ locals.packet_seq \in 1..MaxSeq
        /\ calls[Len(calls)].op = "query_all_txs"
        /\ calls[Len(calls)].value > locals.num_txs
        /\ hostTxs > locals.num_txs

\* the wait is running and a transaction has arrived since the submission
IcaTxArrived ==
    /\ IcaRunning
    /\ line = "l864"
    /\ raised = None
    /\ hostTxs > txsAtSubmit

\* a poll made after the arrival ends the wait
IcaArrivalSeen == (IcaTxArrived /\ calls' # calls) => line' = "returned"

\* C25: ica_ctrl_send_tx reads the baseline transaction count before it
\* submits the controller transaction; the incentivized callback, when
\* given, is invoked exactly once, with the packet sequence of the accepted
\* submission, after the submission and before the wait; the function
\* returns that sequence only after the host chain's count strictly exceeds
\* the baseline, so a transaction that arrives at any time after the
\* submission is never missed.
C25_IcaOrdering ==
    /\ []IcaCallOrder
    /\ []IcaReturned
    /\ [][IcaArrivalSeen]_vars
    /\ IcaTxArrived ~> (IcaRunning /\ line = "returned")

\* the callback was given, the first poll saw no new transaction, a later
\* one did and the function returned
C25_Witness ==
    /\ IcaRunning
    /\ line = "returned"
    /\ locals.incentivized_cb
    /\ txsAtSubmit = locals.num_txs
    /\ Len(calls) > 4
====
